---- MODULE Spec2Model ----
(***************************************************************************)
(* Model of kneeboard_gui.py: the squawk-code pinpad (SquawkCodeInput),    *)
(* the freehand notepad canvas (DrawingCanvas), the clock of KneeboardApp  *)
(* and the start-up and shutdown sequence of the script.                   *)
(*                                                                         *)
(* A Python str is modelled as a sequence of one-character strings, a      *)
(* Python list as a sequence.  DrawingCanvas keeps a stroke as the FLAT    *)
(* list [x0, y0, x1, y1, ...], and so does the model.                      *)
(***************************************************************************)
EXTENDS Integers, Sequences, FiniteSets, TLC

VARIABLES
    squawk_code,     \* SquawkCodeInput.squawk_code (str)
    current_pos,     \* SquawkCodeInput.current_pos
    squawk_display,  \* text of the SquawkCodeInput.squawk_display label
    lines,           \* DrawingCanvas.lines
    current_line,    \* DrawingCanvas.current_line (None or a list)
    start_x,         \* DrawingCanvas.start_x (absent until the first touch)
    start_y,         \* DrawingCanvas.start_y
    canvas_items,    \* the line items drawn on the Tk canvas, in creation order
    raised,          \* TRUE once a handler has raised an exception
    clock_label,     \* text of KneeboardApp.clock_label
    after_pending,   \* number of root.after timers waiting to call update_clock
    pc,              \* position of the script: start, checked, mainloop, exited
    os_name,         \* os.name
    environ,         \* the names set in os.environ
    headless,        \* headless, as returned by check_headless
    vdisplay,        \* vdisplay, as returned by check_headless
    xvfb_started,    \* TRUE once vdisplay.start() has returned normally
    stop_called      \* TRUE once vdisplay.stop() has been called

squawkVars == <<squawk_code, current_pos, squawk_display>>
canvasVars == <<lines, current_line, start_x, start_y, canvas_items, raised>>
clockVars == <<clock_label, after_pending>>
mainVars == <<pc, os_name, environ, headless, vdisplay, xvfb_started, stop_called>>

vars == <<squawk_code, current_pos, squawk_display,
          lines, current_line, start_x, start_y, canvas_items, raised,
          clock_label, after_pending,
          pc, os_name, environ, headless, vdisplay, xvfb_started, stop_called>>

----------------------------------------------------------------------------
(* Bounds *)

\* number of pinpad digit keys the model presses
NumKeys == 5
\* touch coordinates range over 0..MaxCoord
MaxCoord == 1
\* cap on the points held in lines and current_line together
MaxPoints == 3
\* cap on the number of line items on the canvas
MaxItems == 2
\* the clock reads MaxNow + 1 different times
MaxNow == 1

----------------------------------------------------------------------------
(* Python helpers *)

Min(a, b) == IF a < b THEN a ELSE b

\* s[lo:hi] for 0 <= lo, 0 <= hi: indices beyond the end are clamped
PySlice(s, lo, hi) == SubSeq(s, Min(lo, Len(s)) + 1, Min(hi, Len(s)))

\* s[lo:]
PySliceFrom(s, lo) == PySlice(s, lo, Len(s))

\* the value None, and a list value
None == [isNone |-> TRUE, list |-> <<>>]
List(l) == [isNone |-> FALSE, list |-> l]

\* truth value of `if v:` for v None or a list
Truthy(v) == (~v.isNone) /\ Len(v.list) > 0

\* marks an instance attribute that has not been assigned yet
NoAttr == -1

----------------------------------------------------------------------------
(* SquawkCodeInput *)

\* the digit buttons: str(num) for num in 1..9, and "0"
KeyOrder == <<"0", "1", "2", "7", "9", "3", "4", "5", "6", "8">>
PinpadKeys == {KeyOrder[i] : i \in 1..Min(NumKeys, Len(KeyOrder))}

\* the codes of the VFR and EMER buttons
VFR == <<"1", "2", "0", "0">>
EMER == <<"7", "7", "0", "0">>
PresetCodes == {VFR, EMER}

SquawkState(code, pos, disp) ==
    [squawk_code |-> code, current_pos |-> pos, squawk_display |-> disp]

\* update_squawk that refreshes the label before it assigns the new code
update_squawk_stale_display(s, digit) ==
    IF s.current_pos < 4
    THEN LET code == PySlice(s.squawk_code, 0, s.current_pos) \o <<digit>>
                     \o PySliceFrom(s.squawk_code, s.current_pos + 1)
         IN SquawkState(code, (s.current_pos + 1) % 4, s.squawk_code)
    ELSE s

\* update_squawk with the tail slice taken from current_pos instead of
\* current_pos + 1, and the cursor not wrapped
update_squawk_keeps_old_digit(s, digit) ==
    IF s.current_pos < 4
    THEN LET code == PySlice(s.squawk_code, 0, s.current_pos) \o <<digit>>
                     \o PySliceFrom(s.squawk_code, s.current_pos)
         IN SquawkState(code, s.current_pos + 1, code)
    ELSE s

\* update_squawk(digit) applied to the state s
update_squawk(s, digit) ==
    IF s.current_pos < 4
    THEN LET code == PySlice(s.squawk_code, 0, s.current_pos) \o <<digit>>
                     \o PySliceFrom(s.squawk_code, s.current_pos + 1)
         IN SquawkState(code, (s.current_pos + 1) % 4, code)
    ELSE s

\* set_squawk that leaves the cursor where it is
set_squawk_keeps_cursor(s, code) == SquawkState(code, s.current_pos, code)

\* set_squawk(code)
set_squawk(s, code) == SquawkState(code, 0, code)

\* clear_squawk that leaves the cursor where it is
clear_squawk_keeps_cursor(s) ==
    SquawkState(<<"0", "0", "0", "0">>, s.current_pos, <<"0", "0", "0", "0">>)

\* clear_squawk()
clear_squawk(s) == SquawkState(<<"0", "0", "0", "0">>, 0, <<"0", "0", "0", "0">>)

CurSquawk == SquawkState(squawk_code, current_pos, squawk_display)

SetSquawk(s) ==
    /\ squawk_code' = s.squawk_code
    /\ current_pos' = s.current_pos
    /\ squawk_display' = s.squawk_display

\* a digit button is pressed
UpdateSquawk(digit) ==
    /\ SetSquawk(update_squawk(CurSquawk, digit))
    /\ UNCHANGED <<canvasVars, clockVars, mainVars>>

\* the VFR or the EMER button is pressed
SetPreset(code) ==
    /\ SetSquawk(set_squawk(CurSquawk, code))
    /\ UNCHANGED <<canvasVars, clockVars, mainVars>>

\* the Clear button of the squawk display is pressed
ClearSquawk ==
    /\ SetSquawk(clear_squawk(CurSquawk))
    /\ UNCHANGED <<canvasVars, clockVars, mainVars>>

----------------------------------------------------------------------------
(* DrawingCanvas *)

Coord == 0..MaxCoord

\* positions of the touch events: points with distinct x and y among them
TouchPoints == {<<c, MaxCoord - c>> : c \in Coord}

\* number of coordinates / 2 held in lines and current_line
RECURSIVE SumLen(_)
SumLen(ls) == IF ls = <<>> THEN 0 ELSE Len(ls[1]) + SumLen(Tail(ls))
StoredPoints == (SumLen(lines) + Len(current_line.list)) \div 2

\* on_touch_down that commits a stroke still in progress before starting anew
on_touch_down_commits_active(x, y) ==
    /\ lines' = IF Truthy(current_line) THEN Append(lines, current_line.list) ELSE lines
    /\ current_line' = List(<<x, y>>)
    /\ start_x' = x
    /\ start_y' = y
    /\ UNCHANGED <<canvas_items, raised>>

\* on_touch_down(event)
on_touch_down(x, y) ==
    /\ current_line' = List(<<x, y>>)
    /\ start_x' = x
    /\ start_y' = y
    /\ UNCHANGED <<lines, canvas_items, raised>>

\* on_touch_move that records the point as (y, x)
on_touch_move_swapped(x, y) ==
    IF Truthy(current_line)
    THEN /\ canvas_items' = Append(canvas_items, <<start_x, start_y, x, y>>)
         /\ current_line' = List(current_line.list \o <<y, x>>)
         /\ start_x' = x
         /\ start_y' = y
         /\ UNCHANGED <<lines, raised>>
    ELSE UNCHANGED canvasVars

\* on_touch_move(event)
on_touch_move(x, y) ==
    IF Truthy(current_line)
    THEN IF start_x = NoAttr \/ start_y = NoAttr
         THEN \* AttributeError in the arguments of create_line
              /\ raised' = TRUE
              /\ UNCHANGED <<lines, current_line, start_x, start_y, canvas_items>>
         ELSE /\ canvas_items' = Append(canvas_items, <<start_x, start_y, x, y>>)
              /\ current_line' = List(current_line.list \o <<x, y>>)
              /\ start_x' = x
              /\ start_y' = y
              /\ UNCHANGED <<lines, raised>>
    ELSE UNCHANGED canvasVars

\* on_touch_up without the `if self.current_line` test
on_touch_up_unguarded(x, y) ==
    /\ lines' = Append(lines, current_line.list)
    /\ current_line' = None
    /\ UNCHANGED <<start_x, start_y, canvas_items, raised>>

\* on_touch_up that puts the finished stroke in front of lines
on_touch_up_prepends(x, y) ==
    IF Truthy(current_line)
    THEN /\ lines' = <<current_line.list>> \o lines
         /\ current_line' = None
         /\ UNCHANGED <<start_x, start_y, canvas_items, raised>>
    ELSE UNCHANGED canvasVars

\* on_touch_up(event)
on_touch_up(x, y) ==
    IF Truthy(current_line)
    THEN /\ lines' = Append(lines, current_line.list)
         /\ current_line' = None
         /\ UNCHANGED <<start_x, start_y, canvas_items, raised>>
    ELSE UNCHANGED canvasVars

\* clear_canvas that forgets the stroke in progress
clear_canvas_keeps_active ==
    /\ canvas_items' = <<>>
    /\ lines' = <<>>
    /\ UNCHANGED <<current_line, start_x, start_y, raised>>

\* clear_canvas(), called by NotepadTab.clear_notepad
clear_canvas ==
    /\ canvas_items' = <<>>
    /\ lines' = <<>>
    /\ current_line' = None
    /\ UNCHANGED <<start_x, start_y, raised>>

TouchDown(p) ==
    /\ StoredPoints < MaxPoints
    /\ on_touch_down(p[1], p[2])
    /\ UNCHANGED <<squawkVars, clockVars, mainVars>>

TouchMove(p) ==
    /\ StoredPoints < MaxPoints
    /\ Len(canvas_items) < MaxItems
    /\ on_touch_move(p[1], p[2])
    /\ UNCHANGED <<squawkVars, clockVars, mainVars>>

TouchUp(p) ==
    /\ on_touch_up(p[1], p[2])
    /\ UNCHANGED <<squawkVars, clockVars, mainVars>>

ClearNotepad ==
    /\ clear_canvas
    /\ UNCHANGED <<squawkVars, clockVars, mainVars>>

----------------------------------------------------------------------------
(* KneeboardApp: the clock *)

DecDigits == <<"0", "1", "2", "3", "4", "5", "6", "7", "8", "9">>

\* a number below 100 as two decimal digits (%H, %M, %S)
TwoDigits(n) == <<DecDigits[(n \div 10) + 1], DecDigits[(n % 10) + 1]>>

\* now.strftime("%H:%M:%S") for a time of day given in seconds
strftime(t) ==
    TwoDigits(t \div 3600) \o <<":">> \o TwoDigits((t \div 60) % 60)
        \o <<":">> \o TwoDigits(t % 60)

\* the values datetime.now() takes in the model: 00:00:00, 12:34:56, ...
SecondsPerDay == 24 * 3600
SampleStride == 12 * 3600 + 34 * 60 + 56
NowValues == {(k * SampleStride) % SecondsPerDay : k \in 0..MaxNow}

\* update_clock that does not call root.after
update_clock_no_rearm(now, waiting) ==
    /\ clock_label' = strftime(now)
    /\ after_pending' = waiting

\* update_clock(), run while `waiting` timers are still waiting
update_clock(now, waiting) ==
    /\ clock_label' = strftime(now)
    /\ after_pending' = waiting + 1

\* a root.after timer fires in the main loop and calls update_clock
Tick ==
    /\ pc = "mainloop"
    /\ after_pending > 0
    /\ \E now \in NowValues : update_clock(now, after_pending - 1)
    /\ UNCHANGED <<squawkVars, canvasVars, mainVars>>

----------------------------------------------------------------------------
(* check_headless and the script body *)

OsNames == {"posix", "nt", "java"}
NoDisplay == "None"
XvfbDisplay == "Xvfb"

HeadlessResult(h, v, st, env, exc) ==
    [headless |-> h, vdisplay |-> v, started |-> st, environ |-> env, raises |-> exc]

\* check_headless(): import_ok - xvfbwrapper can be imported; pip_ok - the pip
\* install and the import after it succeed; ctor_ok - Xvfb(...) returns;
\* start_ok - vdisplay.start() returns.  raises: an exception leaves the
\* function.
check_headless(os, env, import_ok, pip_ok, ctor_ok, start_ok) ==
    IF os = "posix"
    THEN LET h == ("DISPLAY" \notin env) \/ ("HEADLESS" \in env)
         IN IF ~h
            THEN HeadlessResult(FALSE, NoDisplay, FALSE, env, FALSE)
            ELSE IF import_ok
                 THEN IF ~ctor_ok
                      THEN HeadlessResult(h, NoDisplay, FALSE, env, TRUE)
                      ELSE IF ~start_ok
                           THEN HeadlessResult(h, XvfbDisplay, FALSE, env, TRUE)
                           ELSE HeadlessResult(h, XvfbDisplay, TRUE,
                                               env \cup {"DISPLAY"}, FALSE)
                 ELSE \* except ImportError
                      IF ~pip_ok \/ ~ctor_ok
                      THEN HeadlessResult(h, NoDisplay, FALSE,
                                          env \cup {"SDL_VIDEODRIVER"}, FALSE)
                      ELSE IF ~start_ok
                           THEN \* vdisplay was assigned before start() raised
                                HeadlessResult(h, XvfbDisplay, FALSE,
                                               env \cup {"SDL_VIDEODRIVER"}, FALSE)
                           ELSE HeadlessResult(h, XvfbDisplay, TRUE,
                                               env \cup {"DISPLAY"}, FALSE)
    ELSE IF os = "nt"
         THEN HeadlessResult("HEADLESS" \in env, NoDisplay, FALSE, env, FALSE)
         ELSE HeadlessResult(FALSE, NoDisplay, FALSE, env, FALSE)

\* headless, vdisplay = check_headless(); an exception ends the script
CheckHeadless ==
    /\ pc = "start"
    /\ \E import_ok, pip_ok, ctor_ok, start_ok \in BOOLEAN :
          LET r == check_headless(os_name, environ, import_ok, pip_ok, ctor_ok, start_ok)
          IN /\ pc' = IF r.raises THEN "exited" ELSE "checked"
             /\ headless' = IF r.raises THEN headless ELSE r.headless
             /\ vdisplay' = IF r.raises THEN vdisplay ELSE r.vdisplay
             /\ xvfb_started' = r.started
             /\ environ' = r.environ
    /\ UNCHANGED <<os_name, stop_called, squawkVars, canvasVars, clockVars>>

\* the finally clause of the script
Finally ==
    /\ stop_called' = (stop_called \/ (headless /\ vdisplay # NoDisplay))
    /\ pc' = "exited"

\* root = tk.Tk(); app = KneeboardApp(root), whose __init__ calls
\* update_clock(); on an exception the finally clause runs
CreateApp ==
    /\ pc = "checked"
    /\ \E tk_ok \in BOOLEAN :
          IF tk_ok
          THEN /\ pc' = "mainloop"
               /\ \E now \in NowValues : update_clock(now, after_pending)
               /\ UNCHANGED stop_called
          ELSE /\ Finally
               /\ UNCHANGED clockVars
    /\ UNCHANGED <<os_name, environ, headless, vdisplay, xvfb_started,
                   squawkVars, canvasVars>>

\* root.mainloop() returns or raises, and the finally clause runs
Quit ==
    /\ pc = "mainloop"
    /\ Finally
    /\ UNCHANGED <<os_name, environ, headless, vdisplay, xvfb_started,
                   squawkVars, canvasVars, clockVars>>

----------------------------------------------------------------------------
(* Specifications *)

Init ==
    /\ squawk_code = <<"1", "2", "0", "0">>
    /\ current_pos = 0
    /\ squawk_display = <<"1", "2", "0", "0">>
    /\ lines = <<>>
    /\ current_line = None
    /\ start_x = NoAttr
    /\ start_y = NoAttr
    /\ canvas_items = <<>>
    /\ raised = FALSE
    \* the script has reached root.mainloop() on a desktop with a display
    /\ clock_label = strftime(0)
    /\ after_pending = 1
    /\ pc = "mainloop"
    /\ os_name = "posix"
    /\ environ = {"DISPLAY"}
    /\ headless = FALSE
    /\ vdisplay = NoDisplay
    /\ xvfb_started = FALSE
    /\ stop_called = FALSE

\* the script starts: no widget exists yet
InitMain ==
    /\ squawk_code = <<"1", "2", "0", "0">>
    /\ current_pos = 0
    /\ squawk_display = <<"1", "2", "0", "0">>
    /\ lines = <<>>
    /\ current_line = None
    /\ start_x = NoAttr
    /\ start_y = NoAttr
    /\ canvas_items = <<>>
    /\ raised = FALSE
    /\ clock_label = <<>>
    /\ after_pending = 0
    /\ pc = "start"
    /\ os_name \in OsNames
    /\ environ \in SUBSET {"DISPLAY", "HEADLESS"}
    /\ headless = FALSE
    /\ vdisplay = NoDisplay
    /\ xvfb_started = FALSE
    /\ stop_called = FALSE

NextSquawk ==
    \/ \E d \in PinpadKeys : UpdateSquawk(d)
    \/ \E c \in PresetCodes : SetPreset(c)
    \/ ClearSquawk

NextCanvas ==
    \/ \E p \in TouchPoints : TouchDown(p)
    \/ \E p \in TouchPoints : TouchMove(p)
    \/ \E p \in TouchPoints : TouchUp(p)
    \/ ClearNotepad

\* the running application: clock ticks between input events.  Here the
\* pinpad has the single digit key AppKey, and the canvas holds one point and
\* one line item less than in SpecCanvas.
AppKey == KeyOrder[4]
NextApp ==
    \/ Tick
    \/ UpdateSquawk(AppKey)
    \/ \E c \in PresetCodes : SetPreset(c)
    \/ ClearSquawk
    \/ \E p \in TouchPoints : StoredPoints < MaxPoints - 1 /\ TouchDown(p)
    \/ \E p \in TouchPoints :
          /\ StoredPoints < MaxPoints - 1
          /\ Len(canvas_items) < MaxItems - 1
          /\ TouchMove(p)
    \/ \E p \in TouchPoints : TouchUp(p)
    \/ ClearNotepad

\* start-up, clock ticks and shutdown of the script
NextMain ==
    \/ CheckHeadless
    \/ CreateApp
    \/ Tick
    \/ Quit

SpecApp == Init /\ [][NextApp]_vars

SpecMain == InitMain /\ [][NextMain]_vars

\* the pinpad alone
SpecSquawk == Init /\ [][NextSquawk]_vars

\* the notepad canvas alone
SpecCanvas == Init /\ [][NextCanvas]_vars

----------------------------------------------------------------------------
(* Properties of SquawkCodeInput, checked under SpecSquawk *)

DigitChars == {"0", "1", "2", "3", "4", "5", "6", "7", "8", "9"}

\* C1: after any sequence of digit, preset and clear presses the code has
\* exactly 4 characters, each a decimal digit, and the cursor is in 0..3.
C1_CodeShape ==
    /\ Len(squawk_code) = 4
    /\ \A i \in 1..Len(squawk_code) : squawk_code[i] \in DigitChars
    /\ current_pos \in 0..3

\* a code and cursor that only digit presses after a Clear produce
C1_Witness == squawk_code = <<"9", "9", "9", "0">> /\ current_pos = 3

\* C2: a digit press replaces the character at the cursor by the digit,
\* leaves the other three characters alone and moves the cursor to
\* (cursor + 1) mod 4; the digit is never dropped.
C2_EnterDigit ==
    [][\A d \in PinpadKeys :
          UpdateSquawk(d) =>
              /\ squawk_code' = [squawk_code EXCEPT ![current_pos + 1] = d]
              /\ squawk_code'[current_pos + 1] = d
              /\ current_pos' = (current_pos + 1) % 4]_vars

\* a digit written at index 1 of the default code
C2_Witness == squawk_code = <<"1", "9", "0", "0">> /\ current_pos = 2

\* C3: a preset press sets the code to the preset and the cursor to 0, so
\* that one following digit press overwrites index 0 and leaves the preset's
\* characters at indices 1..3.
C3_Preset ==
    [][\A c \in PresetCodes :
          SetPreset(c) =>
              /\ squawk_code' = c
              /\ current_pos' = 0
              /\ \A d \in PinpadKeys :
                    LET r == update_squawk(CurSquawk', d)
                    IN /\ r.squawk_code = <<d, c[2], c[3], c[4]>>
                       /\ r.current_pos = 1]_vars

\* EMER followed by the digit 9
C3_Witness == squawk_code = <<"9", "7", "0", "0">> /\ current_pos = 1

\* C4: Clear yields the code "0000" and the cursor 0 whatever the state was.
C4_Clear ==
    [][ClearSquawk =>
          /\ squawk_code' = <<"0", "0", "0", "0">>
          /\ Len(squawk_code') = 4
          /\ current_pos' = 0]_vars

C4_Witness ==
    /\ squawk_code = <<"0", "0", "0", "0">>
    /\ squawk_display = <<"0", "0", "0", "0">>
    /\ current_pos = 0

\* four digit presses in a row
Enter4(s, d1, d2, d3, d4) ==
    update_squawk(update_squawk(update_squawk(update_squawk(s, d1), d2), d3), d4)

\* C5: the state is created with code "1200" and cursor 0, and from any
\* state whose cursor is 0 four digit presses d1,d2,d3,d4 yield the code
\* d1d2d3d4 and the cursor 0, whatever the code was; 7,7,0,0 from the default
\* state yields "7700".
C5_FourDigits ==
    /\ squawk_code = <<"1", "2", "0", "0">> /\ current_pos = 0
    /\ [](current_pos = 0 =>
            \A d1, d2, d3, d4 \in PinpadKeys :
               LET r == Enter4(CurSquawk, d1, d2, d3, d4)
               IN r.squawk_code = <<d1, d2, d3, d4>> /\ r.current_pos = 0)

\* a full code typed in: no preset and no Clear ends in it
C5_Witness == squawk_code = <<"9", "7", "2", "1">> /\ current_pos = 0

----------------------------------------------------------------------------
(* Properties of DrawingCanvas, checked under SpecCanvas *)

\* the points of a stroke kept as [x0, y0, x1, y1, ...]
Points(l) == [i \in 1..(Len(l) \div 2) |-> <<l[2 * i - 1], l[2 * i]>>]

\* C6: with a stroke active, a touch-up at p appends p to the stroke, appends
\* the stroke to lines and clears current_line.
C6_UpAppendsPoint ==
    [][\A p \in TouchPoints :
          (Truthy(current_line) /\ TouchUp(p)) =>
              /\ Len(lines') = Len(lines) + 1
              /\ Points(lines'[Len(lines')]) = Append(Points(current_line.list), p)
              /\ current_line' = None]_vars

\* C7: every stroke in lines has at least 2 points.
C7_TwoPoints == \A i \in 1..Len(lines) : Len(Points(lines[i])) >= 2

\* C8: a touch-down at p leaves exactly the point p in current_line; a stroke
\* in progress is dropped and lines is unchanged.
C8_DownStartsStroke ==
    [][\A p \in TouchPoints :
          TouchDown(p) =>
              /\ ~current_line'.isNone
              /\ Points(current_line'.list) = <<p>>
              /\ lines' = lines]_vars

\* a stroke with a drawn segment was dropped by a second touch-down
C8_Witness ==
    /\ canvas_items # <<>>
    /\ lines = <<>>
    /\ Truthy(current_line)
    /\ Len(current_line.list) = 2

\* C9: a touch-move or touch-up with no stroke active changes neither lines
\* nor current_line and raises nothing.
C9_NoActiveNoOp ==
    [][\A p \in TouchPoints :
          (~Truthy(current_line) /\ (TouchMove(p) \/ TouchUp(p))) =>
              /\ lines' = lines
              /\ current_line' = current_line
              /\ ~Truthy(current_line')
              /\ ~raised']_vars

\* no stroke active after one was committed; moves and ups are still delivered
C9_Witness ==
    /\ ~Truthy(current_line)
    /\ Len(lines) = 1
    /\ Len(canvas_items) = 1
    /\ StoredPoints < MaxPoints
    /\ ~raised

\* C10: with a stroke active, a touch-move at p appends p as the last point of
\* current_line, keeps the earlier points in order, keeps the stroke active and
\* leaves lines unchanged.
C10_MoveAppends ==
    [][\A p \in TouchPoints :
          (Truthy(current_line) /\ TouchMove(p)) =>
              /\ Truthy(current_line')
              /\ Points(current_line'.list) = Append(Points(current_line.list), p)
              /\ lines' = lines
              /\ ~raised']_vars

\* a stroke in progress with three points, the last one off the diagonal
C10_Witness ==
    /\ Truthy(current_line)
    /\ Points(current_line.list) = <<<<1, 0>>, <<0, 1>>, <<0, 1>>>>
    /\ lines = <<>>

\* C11: Clear Notepad leaves lines empty and no stroke active, also when a
\* stroke was in progress, so that touch-moves and touch-ups arriving before
\* the next touch-down add nothing to lines.
C11_ClearAll ==
    /\ [][ClearNotepad => (lines' = <<>> /\ current_line' = None)]_vars
    /\ [][\A p \in TouchPoints :
             (lines = <<>> /\ current_line = None /\ (TouchMove(p) \/ TouchUp(p)))
                 => (lines' = <<>> /\ current_line' = None)]_vars

\* cleared after a touch: nothing stored, nothing drawn, start_x left behind
C11_Witness ==
    /\ lines = <<>>
    /\ current_line = None
    /\ canvas_items = <<>>
    /\ start_x # NoAttr

IsPrefix(s, t) == Len(s) <= Len(t) /\ SubSeq(t, 1, Len(s)) = s

\* C12: across every step other than Clear Notepad the old lines is a prefix
\* of the new lines: committed strokes are never modified, reordered or
\* removed, and they lie in the order of their touch-ups.
C12_LinesGrowAtEnd ==
    [][ClearNotepad \/ IsPrefix(lines, lines')]_vars

\* two different committed strokes
C12_Witness == Len(lines) = 2 /\ lines[1] # lines[2]

\* C14: between any two handlers the text of the squawk display label equals
\* squawk_code (both "1200" at first), for any sequence of digit, preset and
\* Clear presses.
C14_DisplayShowsCode == squawk_display = squawk_code

\* the label after a digit press on the default code
C14_Witness ==
    /\ squawk_display = <<"9", "2", "0", "0">>
    /\ squawk_code = <<"9", "2", "0", "0">>
    /\ current_pos = 1

\* the segment from the i-th to the (i+1)-th point of the stroke l
SegmentOf(l, i) == Points(l)[i] \o Points(l)[i + 1]

\* the strokes the widget holds: lines and, when there is one, current_line
RecordedStrokes ==
    {lines[i] : i \in 1..Len(lines)}
        \cup (IF Truthy(current_line) THEN {current_line.list} ELSE {})

\* C15: every line item on the canvas joins two consecutive points of a
\* stroke that is in lines or is current_line; the canvas shows no segment
\* whose points are absent from the recorded strokes.
C15_ItemsAreRecorded ==
    \A k \in 1..Len(canvas_items) :
        \E l \in RecordedStrokes :
            \E i \in 1..(Len(Points(l)) - 1) : canvas_items[k] = SegmentOf(l, i)

----------------------------------------------------------------------------
(* Properties of the clock, checked under SpecApp *)

\* C13: a clock tick only refreshes the clock label and re-arms itself: in
\* any interleaving with input events it leaves the squawk code, the cursor,
\* lines and current_line unchanged, and after it another tick is scheduled.
C13_TickFrame ==
    [][Tick =>
          /\ squawk_code' = squawk_code
          /\ current_pos' = current_pos
          /\ lines' = lines
          /\ current_line' = current_line
          /\ after_pending' >= 1]_vars

\* a tick has changed the label after a digit press and a committed stroke
C13_Witness ==
    /\ clock_label # strftime(0)
    /\ after_pending = 1
    /\ squawk_code = <<"7", "2", "0", "0">>
    /\ lines # <<>>

----------------------------------------------------------------------------
(* Properties of start-up and shutdown, checked under SpecMain *)

\* C16: vdisplay.stop() is executed when the application ends if and only if
\* check_headless started a virtual display: stop is never called on a
\* display whose start failed or was never attempted, and once the script has
\* ended every started display has been stopped.
C16_StopIffStarted ==
    /\ stop_called => xvfb_started
    /\ (pc = "exited" /\ xvfb_started) => stop_called

====
